---- MODULE Spec2Model ----
(***************************************************************************)
(* Model of spark_processing.py: main() runs four stages in order          *)
(* (initialize_spark_session, get_streaming_dataframe,                     *)
(* transform_streaming_data, initiate_streaming_to_postgresql) and then    *)
(* blocks in awaitTermination while the streaming query it started reads   *)
(* the Kafka topic from the earliest offset, turns every message into one  *)
(* row with from_json and appends the rows to the PostgreSQL table.        *)
(*                                                                         *)
(* The streaming query is modelled by the steps the calls of lines 45-52   *)
(* and 98-106 request: a micro-batch is planned up to the latest offsets,  *)
(* one write task per topic partition appends that partition's rows in a   *)
(* transaction of its own, and the batch is committed to the query's       *)
(* checkpoint after the last task.  The code sets no checkpointLocation    *)
(* and no query name, so every process starts with an empty checkpoint.    *)
(***************************************************************************)
EXTENDS Integers, FiniteSets, Sequences, TLC

\* ---------------------------------------------------------------- bounds
NumPartitions == 2
MaxMsgs == 2
MaxRuns == 2

Partitions == 1..NumPartitions
Offsets == 1..MaxMsgs

\* ------------------------------------------------------- schema, payloads
\* The nine StructFields of the schema, all declared nullable=False.
Schema ==
  {"full_name", "gender", "location", "city", "country",
   "postcode", "latitude", "longitude", "email"}

\* A message value: either not JSON at all, or a JSON object whose fields
\* are each well typed ("ok"), of the wrong type ("wrong_type", e.g.
\* postcode "abc") or absent.
JaneDoe == [json |-> TRUE, fields |-> [f \in Schema |-> "ok"]]
BadPostcode ==
  [json |-> TRUE,
   fields |-> [f \in Schema |-> IF f = "postcode" THEN "wrong_type" ELSE "ok"]]
NotJson == [json |-> FALSE, fields |-> [f \in Schema |-> "absent"]]

Payloads == {JaneDoe, BadPostcode, NotJson}

\* A payload the schema admits: valid JSON with every field present and
\* correctly typed.
MatchesSchema(value) ==
  value.json /\ \A f \in Schema : value.fields[f] = "ok"

AllNull == [f \in Schema |-> "NULL"]

\* from_json(col("value"), schema) followed by select("data.*"): one output
\* row per input message, given as the set of rows the engine can produce.
\* Unparseable text gives the null struct, hence a row of NULLs; an absent
\* field gives NULL in that column; a field of the wrong type gives NULL in
\* that column (engines that keep partial results) or the null struct.
from_json(value) ==
  IF ~value.json THEN {AllNull}
  ELSE {[f \in Schema |-> IF value.fields[f] = "ok" THEN "value" ELSE "NULL"]}
       \cup (IF \E f \in Schema : value.fields[f] = "wrong_type"
             THEN {AllNull} ELSE {})

VARIABLES
  pc,              \* position of the process in main()
  spark,           \* result of initialize_spark_session
  df,              \* result of get_streaming_dataframe
  trace,           \* stages main() has called in this run, in order
  logs,            \* log lines emitted in this run
  exitCode,        \* -1 while running, else the process exit status
  signalled,       \* the process received SIGINT in this run
  abandoned,       \* the process ended with a batch in flight
  runs,            \* number of times the script was started
  topic,           \* Kafka topic: per partition, the sequence of values
  table,           \* table[p][o]: rows in PostgreSQL made from message (p,o)
  storeConnected,  \* a JDBC connection was opened in this run
  committed,       \* checkpoint of the running query: offset per partition
  startOffsets,    \* start of the batch in flight
  endOffsets,      \* end of the batch in flight
  phase,           \* "idle", "planned" or "written"
  done,            \* partitions of the batch whose write task committed
  retried,         \* a write attempt of the batch in flight has failed
  acked,           \* highest offset of a batch the sink acknowledged to the query
  lastCommitted    \* history: the offsets most recently committed

procVars == <<pc, spark, df, trace, logs, exitCode, signalled, abandoned>>
storeVars == <<table, storeConnected>>
batchVars == <<startOffsets, endOffsets, phase, done, retried>>
engineVars == <<committed, acked, batchVars>>
histVars == <<lastCommitted>>

vars == <<procVars, runs, topic, storeVars, engineVars, histVars>>

ZeroOffsets == [p \in Partitions |-> 0]

Init ==
  /\ pc = "initialize_spark_session"
  /\ spark = "unset"
  /\ df = "unset"
  /\ trace = <<>>
  /\ logs = {}
  /\ exitCode = -1
  /\ signalled = FALSE
  /\ abandoned = FALSE
  /\ runs = 1
  /\ topic = [p \in Partitions |-> <<>>]
  /\ table = [p \in Partitions |-> [o \in Offsets |-> 0]]
  /\ storeConnected = FALSE
  /\ committed = ZeroOffsets
  /\ startOffsets = ZeroOffsets
  /\ endOffsets = ZeroOffsets
  /\ phase = "idle"
  /\ done = {}
  /\ retried = FALSE
  /\ acked = ZeroOffsets
  /\ lastCommitted = ZeroOffsets

\* ------------------------------------------------------------------ main
\* Variant of AfterSession without the "if spark:" test.
AfterSession_ungated(s) == "get_streaming_dataframe"

\* main(), line 119: "if spark:" - the subscription is attempted only with
\* a session; otherwise main falls off its end and returns.
AfterSession(s) ==
  IF s = "session" THEN "get_streaming_dataframe" ELSE "returned"

\* main(), line 121: "if df:" - transform and sink start only with a
\* dataframe; otherwise main returns.
AfterDataframe(d) ==
  IF d = "dataframe" THEN "transform_streaming_data" ELSE "returned"

\* The interpreter's exit status once main() is left: 0 after a normal
\* return (line 128 is the last statement), 1 after an uncaught exception.
ExitOf(p) ==
  IF p = "returned" THEN 0 ELSE IF p = "raised" THEN 1 ELSE -1

\* initialize_spark_session: getOrCreate either yields a session (info
\* line, session returned) or raises (error line, None returned).
InitializeSparkSession ==
  /\ pc = "initialize_spark_session"
  /\ \E ok \in BOOLEAN :
       /\ spark' = IF ok THEN "session" ELSE "None"
       /\ logs' = logs \cup {IF ok THEN "info:session" ELSE "error:session"}
       /\ pc' = AfterSession(spark')
       /\ exitCode' = ExitOf(pc')
  /\ trace' = Append(trace, "initialize_spark_session")
  /\ UNCHANGED <<df, signalled, abandoned, runs, topic, storeVars, engineVars, histVars>>

\* get_streaming_dataframe: readStream...load() either yields a dataframe
\* (info line) or raises (warning line, None returned); with spark = None
\* the attribute access itself raises inside the try.
GetStreamingDataframe ==
  /\ pc = "get_streaming_dataframe"
  /\ \E ok \in BOOLEAN :
       /\ ok => spark = "session"
       /\ df' = IF ok THEN "dataframe" ELSE "None"
       /\ logs' = logs \cup {IF ok THEN "info:dataframe" ELSE "warning:dataframe"}
       /\ pc' = AfterDataframe(df')
       /\ exitCode' = ExitOf(pc')
  /\ trace' = Append(trace, "get_streaming_dataframe")
  /\ UNCHANGED <<spark, signalled, abandoned, runs, topic, storeVars, engineVars,
                 histVars>>

\* transform_streaming_data: builds the lazy plan value -> from_json ->
\* data.*; nothing is read or written yet.
TransformStreamingData ==
  /\ pc = "transform_streaming_data"
  /\ pc' = "initiate_streaming_to_postgresql"
  /\ trace' = Append(trace, "transform_streaming_data")
  /\ UNCHANGED <<spark, df, logs, exitCode, signalled, abandoned, runs,
                 topic, storeVars, engineVars, histVars>>

\* initiate_streaming_to_postgresql up to start(): the info line, then
\* writeStream...start().  start() either launches the query, and main
\* blocks in awaitTermination, or raises (the engine refuses the sink or
\* the missing checkpoint location); nothing catches that exception.
InitiateStreamingToPostgresql ==
  /\ pc = "initiate_streaming_to_postgresql"
  /\ logs' = logs \cup {"info:initiating"}
  /\ trace' = Append(trace, "initiate_streaming_to_postgresql")
  /\ \E started \in BOOLEAN :
       /\ pc' = IF started THEN "awaitTermination" ELSE "raised"
       /\ exitCode' = ExitOf(pc')
  /\ UNCHANGED <<spark, df, signalled, abandoned, runs, topic, storeVars,
                 engineVars, histVars>>

\* ------------------------------------------------------- streaming query
NeededPartitions == {p \in Partitions : endOffsets[p] > startOffsets[p]}

Max(a, b) == IF a >= b THEN a ELSE b

\* Variant of CommitReady that commits a batch as soon as it is planned.
CommitReady_planned == phase \in {"planned", "written"}

\* The query records a batch in its checkpoint only once every write task
\* of the batch has finished.
CommitReady == phase = "written"

\* The offsets a new query starts from: writeStream sets no
\* checkpointLocation and no query name, so the query finds no earlier
\* checkpoint and startingOffsets = "earliest" applies.
ResumeOffsets(previous) == ZeroOffsets

\* The process ends while the query runs: the query's in-memory batch
\* state is lost with it; whether a batch was in flight is remembered.
QueryLost ==
  /\ abandoned' = (phase # "idle")
  /\ startOffsets' = ZeroOffsets
  /\ endOffsets' = ZeroOffsets
  /\ phase' = "idle"
  /\ done' = {}
  /\ retried' = FALSE

\* A micro-batch is planned from the checkpoint up to the latest offsets.
PlanBatch ==
  /\ pc = "awaitTermination"
  /\ phase = "idle"
  /\ \E p \in Partitions : Len(topic[p]) > committed[p]
  /\ startOffsets' = committed
  /\ endOffsets' = [p \in Partitions |-> Len(topic[p])]
  /\ phase' = "planned"
  /\ done' = {}
  /\ retried' = FALSE
  /\ UNCHANGED <<procVars, runs, topic, storeVars, committed, acked, histVars>>

\* The write task of partition p succeeds: every message of the batch in
\* that partition becomes one appended row (outputMode append, no filter),
\* in one transaction.  After the last task the sink has written the batch.
WritePartitionOk(p) ==
  /\ pc = "awaitTermination"
  /\ phase = "planned"
  /\ p \in NeededPartitions \ done
  /\ table' = [table EXCEPT ![p] =
                 [o \in Offsets |->
                    IF startOffsets[p] < o /\ o <= endOffsets[p]
                    THEN @[o] + 1 ELSE @[o]]]
  /\ storeConnected' = TRUE
  /\ done' = done \cup {p}
  /\ IF done' = NeededPartitions
     THEN /\ phase' = "written"
          /\ acked' = [q \in Partitions |-> Max(acked[q], endOffsets[q])]
     ELSE UNCHANGED <<phase, acked>>
  /\ UNCHANGED <<procVars, runs, topic, committed, startOffsets, endOffsets,
                 retried, histVars>>

\* The write task of partition p fails (store unreachable): its
\* transaction is rolled back.  The code configures no retry, so what
\* follows is the deployment's: the scheduler runs the task again, or the
\* query fails and awaitTermination raises out of main.
WritePartitionFail(p) ==
  /\ pc = "awaitTermination"
  /\ phase = "planned"
  /\ p \in NeededPartitions \ done
  /\ \/ /\ retried' = TRUE
        /\ UNCHANGED <<pc, exitCode, abandoned, startOffsets, endOffsets,
                       phase, done>>
     \/ /\ pc' = "raised"
        /\ exitCode' = ExitOf(pc')
        /\ QueryLost
  /\ UNCHANGED <<spark, df, trace, logs, signalled, runs, topic, storeVars,
                 committed, acked, histVars>>

\* The batch is recorded in the query's checkpoint.
CommitBatch ==
  /\ pc = "awaitTermination"
  /\ CommitReady
  /\ committed' = endOffsets
  /\ lastCommitted' = endOffsets
  /\ phase' = "idle"
  /\ UNCHANGED <<procVars, runs, topic, storeVars, startOffsets, endOffsets,
                 done, retried, acked>>

\* ------------------------------------------------------------ environment
RECURSIVE TopicSize(_)
\* Number of messages in the first n partitions of the topic.
TopicSize(n) == IF n = 0 THEN 0 ELSE Len(topic[n]) + TopicSize(n - 1)

\* A producer appends a value to a partition of names_topic.  Partitions
\* are interchangeable, so they receive their first message in index order.
Produce(p, v) ==
  /\ TopicSize(NumPartitions) < MaxMsgs
  /\ IF p = 1 THEN TRUE ELSE Len(topic[p - 1]) > 0
  /\ topic' = [topic EXCEPT ![p] = Append(@, v)]
  /\ UNCHANGED <<procVars, runs, storeVars, engineVars, histVars>>

\* SIGINT while main blocks in awaitTermination: KeyboardInterrupt is
\* raised there, nothing catches it and no handler stops the query, so the
\* process ends wherever the batch in flight happens to be.
ShutdownSignal ==
  /\ pc = "awaitTermination"
  /\ signalled' = TRUE
  /\ pc' = "raised"
  /\ exitCode' = 130
  /\ QueryLost
  /\ UNCHANGED <<spark, df, trace, logs, runs, topic, storeVars, committed,
                 acked, histVars>>

\* The script is run again: a new process, a new query.  Topic and table
\* persist; the checkpoint is whatever the new query resumes from.
Restart ==
  /\ pc \in {"returned", "raised"}
  /\ runs < MaxRuns
  /\ runs' = runs + 1
  /\ pc' = "initialize_spark_session"
  /\ spark' = "unset"
  /\ df' = "unset"
  /\ trace' = <<>>
  /\ logs' = {}
  /\ exitCode' = -1
  /\ signalled' = FALSE
  /\ abandoned' = FALSE
  /\ storeConnected' = FALSE
  /\ committed' = ResumeOffsets(committed)
  /\ acked' = ZeroOffsets
  /\ UNCHANGED <<topic, table, batchVars, histVars>>

Next ==
  \/ InitializeSparkSession
  \/ GetStreamingDataframe
  \/ TransformStreamingData
  \/ InitiateStreamingToPostgresql
  \/ PlanBatch
  \/ \E p \in Partitions : WritePartitionOk(p)
  \/ \E p \in Partitions : WritePartitionFail(p)
  \/ CommitBatch
  \/ \E p \in Partitions : \E v \in Payloads : Produce(p, v)
  \/ ShutdownSignal
  \/ Restart

Spec == Init /\ [][Next]_vars

\* ------------------------------------------------------------- properties
Range(seq) == {seq[i] : i \in 1..Len(seq)}

Stages ==
  <<"initialize_spark_session", "get_streaming_dataframe",
    "transform_streaming_data", "initiate_streaming_to_postgresql">>

IsPrefix(a, b) ==
  Len(a) <= Len(b) /\ \A i \in 1..Len(a) : a[i] = b[i]

InBatch(p, o) == startOffsets[p] < o /\ o <= endOffsets[p]

C2_ResumeAfterCommitted ==
  phase # "idle" => startOffsets = lastCommitted

\* C3 as stated: a message that is not valid JSON or violates the schema
\* contributes no row to the table, and no row of the table has a NULL
\* column.
C3_RejectedWritesNothing ==
  \A p \in Partitions : \A o \in 1..Len(topic[p]) :
    /\ ~MatchesSchema(topic[p][o]) => table[p][o] = 0
    /\ table[p][o] > 0 =>
         \A row \in from_json(topic[p][o]) : \A f \in Schema : row[f] # "NULL"

\* C4 as stated: when write attempts of a batch failed and its write then
\* succeeded, the table holds each record of that batch exactly once.
C4_NoDuplicatesAfterRetry ==
  (retried /\ phase = "written") =>
    \A p \in Partitions : \A o \in Offsets : InBatch(p, o) => table[p][o] = 1

\* C5 as stated: in every state, also after a failed or interrupted write,
\* either all records of the batch in flight are visible in the table or
\* none is.
C5_BatchAtomic ==
  phase # "idle" => (done = {} \/ done = NeededPartitions)

\* C6 as stated: exit status 0 only after a normal drained shutdown, and a
\* non-zero status when establishing the session or the queue connection
\* failed.
C6_ExitStatus ==
  /\ exitCode = 0 => (spark = "session" /\ df = "dataframe" /\ phase = "idle")
  /\ (exitCode # -1 /\ (spark = "None" \/ df = "None")) => exitCode # 0

\* The Runner state of section 4.5 the process is in.
Lifecycle(p) ==
  CASE p = "initialize_spark_session" -> "INIT"
    [] p \in {"get_streaming_dataframe", "transform_streaming_data",
              "initiate_streaming_to_postgresql"} -> "CONNECTING"
    [] p = "awaitTermination" -> "STREAMING"
    [] p = "raised" -> "FAILED"
    [] OTHER -> "STOPPED"

LifecycleEdges ==
  {<<"INIT", "CONNECTING">>, <<"CONNECTING", "STREAMING">>,
   <<"CONNECTING", "FAILED">>, <<"STREAMING", "DRAINING">>,
   <<"STREAMING", "FAILED">>, <<"DRAINING", "STOPPED">>,
   <<"FAILED", "STOPPED">>}

\* C8 as stated: within one process the lifecycle moves only along
\* INIT -> CONNECTING -> STREAMING -> (DRAINING | FAILED) -> STOPPED (or
\* CONNECTING -> FAILED), and STREAMING is entered only with the queue and
\* the store connections established.
C8_Lifecycle ==
  /\ [][(runs' = runs /\ Lifecycle(pc') # Lifecycle(pc)) =>
          <<Lifecycle(pc), Lifecycle(pc')>> \in LifecycleEdges]_vars
  /\ [](Lifecycle(pc) = "STREAMING" => (df = "dataframe" /\ storeConnected))

\* C9 as stated: after a shutdown signal the batch in flight has been
\* written and committed by the time the process has stopped.
C9_GracefulShutdown ==
  (signalled /\ pc \in {"returned", "raised"}) => ~abandoned

\* C10: the stages run in order; the subscription only with a session, the
\* transform and the sink start only with a dataframe; when a stage
\* returned None (after its log line) no later stage has run, nothing was
\* written to the store and main has returned without raising.
C10_StageGating ==
  /\ IsPrefix(trace, Stages)
  /\ "get_streaming_dataframe" \in Range(trace) => spark = "session"
  /\ "transform_streaming_data" \in Range(trace) => df = "dataframe"
  /\ "initiate_streaming_to_postgresql" \in Range(trace) => df = "dataframe"
  /\ spark = "None" =>
       /\ trace = <<"initialize_spark_session">>
       /\ "error:session" \in logs
  /\ df = "None" =>
       /\ trace = <<"initialize_spark_session", "get_streaming_dataframe">>
       /\ "warning:dataframe" \in logs
  /\ (spark = "None" \/ df = "None") =>
       /\ pc = "returned"
       /\ ~storeConnected

\* The subscription failed after a successful session start, in a run made
\* after an earlier run had streamed rows into the table.
C10_Witness ==
  /\ df = "None"
  /\ pc = "returned"
  /\ \E p \in Partitions : \E o \in Offsets : table[p][o] > 0

====
